---- MODULE Spec2Model ----
(***************************************************************************)
(* One XDCC Transfer (class Request) driven by its environment: the IRC    *)
(* session delivering CTCP-PRIVMSG events, the file system, the TCP data   *)
(* channel of each download the Transfer opens, its timers, and cancel.    *)
(* SpecApi puts the Transfer behind the TCP front-end of server.js: the API *)
(* sockets, the request buffer of each, the activeDownloads registry and    *)
(* the listeners that forward the Transfer's events as JSON envelopes.      *)
(*                                                                         *)
(* Every action is one callback of the program, run to completion (the     *)
(* runtime is single-threaded): an asynchronous call made by a callback    *)
(* (fs.stat, fs.unlink, createWriteStream, net.connect, fs.rename,         *)
(* setTimeout) is recorded as pending and its callback is another action.  *)
(*                                                                         *)
(* Byte counts are counted in blocks of 64 KiB (2^16 bytes): every length  *)
(* of the model is a whole number of blocks, so that 2^32 bytes is 2^16    *)
(* blocks and the 32-bit ACK wrap-around is computed on the real values.   *)
(***************************************************************************)
EXTENDS Integers, Sequences, FiniteSets, TLC

\* ------------------------------------------------------------------ bounds
\* Spec: one DCC SEND offer, the whole life of the download it starts
\* DCC SEND offers the bot makes to the Transfer
MaxSend == 1
\* downloads (calls of _download) of the Transfer
MaxDl == 1
\* 'dlerror' events up to which a CTCP message that raises one is delivered
MaxErrors == 1
\* chunks the peer sends, over all data channels of the Transfer
MaxData == 2
\* 'progress' events the interval timers raise
MaxTicks == 1

\* SpecRace: two DCC SEND offers in flight, a shorter life of the download
RaceSend == 2
RaceErrors == 0
RaceData == 1

\* SpecApi: API connections, chunks the peer sends, and the hours a registry
\* entry is followed for
MaxSocks == 1
ApiChunks == 1
MaxAge == 2

\* SpecPair: Transfers in flight at once
MaxTransfers == 2

\* SpecCtcp: CTCP-PRIVMSG events queued in the IRC session
MaxCtcp == 2

\* SpecReg: DCC SEND offers the bot makes to the Transfer of an API request,
\* and downloads of that Transfer
RegSend == 2
TwoDl == 2
RegDl == 2

\* ------------------------------------------------------- program constants
\* 0xFFFFFFFF bytes, in whole blocks: for a whole number a of blocks,
\* a * 2^16 > 0xFFFFFFFF  iff  a > 2^16 - 1
AckMax == 2^16 - 1

\* args.nick and client.nick
BotNick == "Bot|A"
OurNick == "ghost_rider"

\* ------------------------------------------------------------------ inputs
Names == {"a.bin", "b.bin"}
\* parseInt(undefined, 10)
NaN == 0 - 1
\* a positive number divided by zero
Infinity == 0 - 2
\* a file that does not exist (fs.stat fails)
Absent == 0 - 1
\* fields of the empty object {}
Undefined == "undefined"
UndefinedNum == 0 - 2

\* a .part of 2^33 bytes minus one block
BigPart == 2 * (AckMax + 1) - 1

\* the DCC SEND offers the bot makes: filename, port, filesize
\* (b.bin is offered without a size: filesize defaults to 0)
SendOffers ==
    { [filename |-> "a.bin", port |-> 5000, filesize |-> 2],
      [filename |-> "b.bin", port |-> 5001, filesize |-> 0],
      [filename |-> "a.bin", port |-> 5000, filesize |-> BigPart + 2] }

\* the fifth field of a DCC ACCEPT
AcceptOffsets == {NaN, 0, 1, 2, BigPart}

\* the download directory at start: a.bin.part may be left by an interrupted
\* download, a.bin by a completed one
PartOfA(k) == [n \in Names |-> IF n = "a.bin" THEN k ELSE Absent]
InitFs ==
    { [part |-> PartOfA(k), final |-> {}] : k \in {Absent, 1, 2, BigPart} }
    \cup { [part |-> PartOfA(Absent), final |-> {"a.bin"}] }

\* lengths of the chunks the peer sends
ChunkLens == {1, 2}

\* CTCP-PRIVMSG events: (sender, target, message)
\*   kind "text"    the message does not start with "DCC "
\*   kind "garbage" starts with "DCC " and the parser does not match
\*   kind "dcc"     the parser matches: cmd, filename, port, arg5
Msg(sender, target, kind, cmd, filename, port, arg5) ==
    [sender |-> sender, target |-> target, kind |-> kind, cmd |-> cmd,
     filename |-> filename, port |-> port, arg5 |-> arg5]

CtcpMessages ==
    { Msg("other", OurNick, "dcc", "SEND", "a.bin", 5000, 2),
      Msg(BotNick, "#chan", "dcc", "SEND", "a.bin", 5000, 2),
      Msg(BotNick, OurNick, "text", "", "", 0, 0),
      Msg(BotNick, OurNick, "garbage", "", "", 0, 0),
      Msg(BotNick, OurNick, "dcc", "CHAT", "a.bin", 5000, NaN) }
    \cup { Msg(BotNick, OurNick, "dcc", "SEND", o.filename, o.port, o.filesize) :
             o \in SendOffers }
    \cup { Msg(BotNick, OurNick, "dcc", "ACCEPT", o.filename, o.port, k) :
             o \in SendOffers, k \in AcceptOffsets }
    \cup { Msg(BotNick, OurNick, "dcc", "ACCEPT", "a.bin", 5001, 1) }

\* the size guard of the API front-end, in characters
MaxRequest == 10000

\* the age past which the cleanup drops an entry without socket, in hours
StaleHours == 1

\* the largest port net.connect takes
MaxPort == 65535

\* ------------------------------------------------------------ API requests
\* The text of a request is a sequence of tokens: "{" and "}" open and close
\* an object, "bot", "pack" and "prog" are the members bot_name, pack_number
\* and send_progress: true, "pad" is white space.
Socks == 1..MaxSocks
TokenSize(t) == IF t = "pad" THEN MaxRequest - 1 ELSE 1
RECURSIVE TextSize(_)
TextSize(s) == IF s = <<>> THEN 0 ELSE TokenSize(Head(s)) + TextSize(Tail(s))

\* the requests a client sends
RequestTexts ==
    { <<"{", "bot", "pack", "prog", "}">>,
      <<"{", "bot", "pack", "}">>,
      <<"{", "bot", "pack", "{", "}", "}">>,
      <<"{", "bot", "}">>,
      <<"{", "pad", "bot", "pack", "}">> }

\* the value of pack_number in the requests
PackNumber == "1"

\* process.exit was not called
NoExit == 0 - 1

\* the Transfers that share the IRC session
Transfers == 1..MaxTransfers

\* ------------------------------------------------------------------- state
VARIABLES
    args,         \* this.args: [resume]
    started,      \* 'start' was emitted (once)
    cancelled,    \* 'cancel' was emitted (once)
    finished,     \* this.finished
    handlerBound, \* this.handlerBound
    subscribed,   \* the bound handler is a 'ctcp-privmsg' listener of the client
    listeners,    \* the Request's own listeners are attached
    killTimer,    \* the 100 ms timeout of _killRequest: "idle", "pending", "fired"
    intervalId,   \* this.intervalId: 0 (null) or the download that set it
    timers,       \* downloads whose progress interval is running
    pack_info,    \* this.pack_info: 0 ({}) or an index of packs
    packs,        \* the pack objects created by _handleDccSend
    stats,        \* pending fs.stat calls: the filePath of each
    unlinks,      \* pending fs.unlink calls: the filePath of each
    dl,           \* the calls of _download that got past the finished check
    part,         \* file system: size of <name>.part, or Absent
    final,        \* file system: the names whose final file exists
    emitted,      \* how many times the Transfer emitted each of its events
    lastEmit,     \* the last event emitted: its name and its error message
    ircOut,       \* messages sent to the bot through the IRC session
    sock,         \* API sockets: "none", "open", "ended" (end() called), "closed"
    input,        \* per socket, the text its client has yet to send
    requestData,  \* per socket, the requestData buffer
    out,          \* per socket, the envelopes written to it
    closeHandler, \* per socket, whether the 'close' handler of line 421 is attached
    owner,        \* the closure of the Request's listeners: socket, send_progress
    trackers,     \* the tracker objects created by the 'connect' listener; age is
                  \* now - startTime in whole hours
    activeDownloads, \* the registry: downloadId -> index of trackers
    endTimers,    \* pending write callbacks and their 200 ms timeouts
    proc,         \* the process: the phase of its shutdown, a pending exit(1),
                  \* its exit code
    ircIn,        \* CTCP-PRIVMSG events the IRC session has yet to emit, and how
                  \* many it gave to the handler of the Transfer
    pair          \* Transfers that share the IRC session, and their directory

requestVars == <<args, started, cancelled, finished, handlerBound, subscribed,
                 listeners, killTimer, intervalId, timers, pack_info, packs, stats,
                 unlinks, dl, part, final, emitted, lastEmit, ircOut>>
apiVars == <<sock, input, requestData, out, closeHandler, owner, trackers,
             activeDownloads, endTimers>>
envVars == <<proc, ircIn, pair>>
vars == <<requestVars, apiVars, envVars>>

killVars == <<finished, handlerBound, killTimer, intervalId, timers>>

\* ----------------------------------------------------------------- helpers
\* this.emit(ev, pack, ...): pack is an index of packs, or 0 for null and {};
\* msg is the error of a 'dlerror'
Emit(ev, pack, msg) ==
    /\ emitted' = [emitted EXCEPT ![ev] = @ + 1]
    /\ lastEmit' = [ev |-> ev, pack |-> pack, msg |-> msg, received |-> 0]
\* this.emit('progress', pack, received)
EmitProgress(pack, received) ==
    /\ emitted' = [emitted EXCEPT !["progress"] = @ + 1]
    /\ lastEmit' = [ev |-> "progress", pack |-> pack, msg |-> "",
                    received |-> received]
NoEmit == UNCHANGED <<emitted, lastEmit>>

Say(cmd, filename, port, pos) ==
    ircOut' = Append(ircOut, [cmd |-> cmd, filename |-> filename,
                              port |-> port, pos |-> pos])

\* the fields of this.pack_info, which may be {}
PackFilename == IF pack_info = 0 THEN Undefined ELSE packs[pack_info].filename
PackPort == IF pack_info = 0 THEN UndefinedNum ELSE packs[pack_info].port
PackResumepos == IF pack_info = 0 THEN UndefinedNum ELSE packs[pack_info].resumepos

RemoveAt(s, i) == SubSeq(s, 1, i - 1) \o SubSeq(s, i + 1, Len(s))

\* ------------------------------------------------------------ construction
\* the Request after its constructor, and the download directory
Constructed ==
    /\ started = FALSE
    /\ cancelled = FALSE
    /\ finished = FALSE
    /\ handlerBound = FALSE
    /\ subscribed = FALSE
    /\ listeners = TRUE
    /\ killTimer = "idle"
    /\ intervalId = 0
    /\ timers = {}
    /\ pack_info = 0
    /\ packs = <<>>
    /\ stats = <<>>
    /\ unlinks = <<>>
    /\ dl = <<>>
    /\ \E fs \in InitFs : part = fs.part /\ final = fs.final
    /\ emitted = [connect |-> 0, progress |-> 0, complete |-> 0, dlerror |-> 0]
    /\ lastEmit = [ev |-> "", pack |-> 0, msg |-> "", received |-> 0]
    /\ ircOut = <<>>

\* the front-end after server.listen: no connection, an empty registry
Listening ==
    /\ sock = [c \in Socks |-> "none"]
    /\ input = [c \in Socks |-> <<>>]
    /\ requestData = [c \in Socks |-> <<>>]
    /\ out = [c \in Socks |-> <<>>]
    /\ closeHandler = [c \in Socks |-> FALSE]
    /\ owner = [socket |-> 0, sendProgress |-> FALSE]
    /\ trackers = <<>>
    /\ activeDownloads = <<>>
    /\ endTimers = {}

\* the process after start-up; no Transfer shares the IRC session yet
NoTransfer ==
    [started |-> FALSE, finished |-> FALSE, nick |-> "", pack |-> <<>>,
     stat |-> FALSE, stream |-> "none", conn |-> "none"]
Running ==
    /\ proc = [phase |-> "running", crash |-> FALSE, code |-> NoExit]
    /\ pair = [reqs |-> [t \in Transfers |-> NoTransfer], parts |-> {}]

\* server.js constructs every Request with resume: true
Init ==
    /\ args = [resume |-> TRUE]
    /\ Constructed
    /\ Listening
    /\ Running
    /\ ircIn = [queue |-> <<>>, handled |-> 0]

\* the Request as a library: resume may be disabled
InitAnyArgs ==
    /\ args \in [resume : BOOLEAN]
    /\ Constructed
    /\ Listening
    /\ Running
    /\ ircIn = [queue |-> <<>>, handled |-> 0]

\* ------------------------------------------------------------ _killRequest
KillRequest ==
    IF finished
    THEN UNCHANGED killVars
    ELSE /\ finished' = TRUE
         /\ timers' = timers \ {intervalId}
         /\ intervalId' = 0
         \* removeListener is given the unbound method, which is no listener
         \* of the client: the subscription stays
         /\ handlerBound' = FALSE
         /\ killTimer' = "pending"

\* the 100 ms timeout set by _killRequest
KillTimeout ==
    /\ killTimer = "pending"
    /\ killTimer' = "fired"
    /\ listeners' = FALSE
    /\ pack_info' = 0
    /\ UNCHANGED <<args, started, cancelled, finished, handlerBound, subscribed,
                   intervalId, timers, packs, stats, unlinks, dl, part, final,
                   emitted, lastEmit, ircOut>>

\* ------------------------------------------------------------ _handleStart
HandleStart ==
    /\ ~started
    /\ listeners
    /\ started' = TRUE
    /\ Say("XDCC SEND", "", 0, 0)
    /\ IF ~handlerBound
       THEN subscribed' = TRUE /\ handlerBound' = TRUE
       ELSE UNCHANGED <<subscribed, handlerBound>>
    /\ UNCHANGED <<args, cancelled, finished, listeners, killTimer, intervalId,
                   timers, pack_info, packs, stats, unlinks, dl, part, final,
                   emitted, lastEmit>>

\* ----------------------------------------------------------- _handleCancel
\* _handleCancel that tells the bot and leaves the Transfer running
HandleCancelNoKill ==
    /\ ~cancelled
    /\ listeners
    /\ cancelled' = TRUE
    /\ IF finished
       THEN UNCHANGED ircOut
       ELSE Say("XDCC CANCEL", "", 0, 0)
    /\ UNCHANGED <<args, started, subscribed, listeners, pack_info, packs, stats,
                   unlinks, dl, part, final, emitted, lastEmit, killVars>>

HandleCancel ==
    /\ ~cancelled
    /\ listeners
    /\ cancelled' = TRUE
    /\ IF finished
       THEN UNCHANGED <<ircOut, killVars>>
       ELSE Say("XDCC CANCEL", "", 0, 0) /\ KillRequest
    /\ UNCHANGED <<args, started, subscribed, listeners, pack_info, packs, stats,
                   unlinks, dl, part, final, emitted, lastEmit>>

\* --------------------------------------------------------------- _download
\* a call of _download that got past the finished check: its closure,
\* (called) the resumepos of its pack at the call, and (pending) the chunks
\* written to the stream that the stream has not yet written to the file
NewDownload(p) ==
    [pack |-> p, called |-> packs[p].resumepos, st |-> "opening", received |-> 0,
     ack |-> 0, appended |-> 0, nChunks |-> 0, nAcks |-> 0, lastAck |-> 0,
     pending |-> <<>>]

Download(p) ==
    IF finished
    THEN UNCHANGED dl
    ELSE dl' = Append(dl, NewDownload(p))

\* ---------------------------------------------------------- _handleDccSend
\* the synchronous part: the new pack_info, the directory, the fs.stat call;
\* dirOk is whether the directory exists or can be created
HandleDccSend(filename, port, filesize, dirOk) ==
    /\ packs' = Append(packs, [command |-> "SEND", filename |-> filename,
                               port |-> port, filesize |-> filesize,
                               resumepos |-> 0])
    /\ pack_info' = Len(packs) + 1
    /\ IF dirOk
       THEN stats' = Append(stats, filename) /\ NoEmit
       ELSE Emit("dlerror", Len(packs) + 1, "Failed to create directory") /\ UNCHANGED stats
    /\ UNCHANGED <<dl, killVars>>

\* the callback of fs.stat in checkForPartialFile
StatCallback(i) ==
    LET filePath == stats[i] IN
    /\ stats' = RemoveAt(stats, i)
    /\ IF part[filePath] # Absent
       THEN IF args.resume
            THEN /\ Say("DCC RESUME", PackFilename, PackPort, part[filePath])
                 /\ packs' = IF pack_info = 0
                             THEN packs
                             ELSE [packs EXCEPT ![pack_info].resumepos = part[filePath]]
                 /\ UNCHANGED <<unlinks, dl>>
            ELSE /\ unlinks' = Append(unlinks, filePath)
                 /\ UNCHANGED <<ircOut, packs, dl>>
       ELSE /\ Download(pack_info)
            /\ UNCHANGED <<ircOut, packs, unlinks>>
    /\ UNCHANGED <<args, started, cancelled, subscribed, listeners, pack_info,
                   part, final, emitted, lastEmit, killVars>>

\* the callback of fs.unlink; ok is whether the file was deleted
UnlinkCallback(i, ok) ==
    LET filePath == unlinks[i] IN
    /\ ok => part[filePath] # Absent
    /\ unlinks' = RemoveAt(unlinks, i)
    /\ IF ok
       THEN /\ part' = [part EXCEPT ![filePath] = Absent]
            /\ Download(pack_info)
            /\ NoEmit
       ELSE /\ Emit("dlerror", pack_info, "Failed to delete partial file")
            /\ UNCHANGED <<part, dl>>
    /\ UNCHANGED <<args, started, cancelled, subscribed, listeners, pack_info,
                   packs, stats, final, ircOut, killVars>>

\* -------------------------------------------------------- _handleDccAccept
HandleDccAccept(filename, port, resumepos) ==
    IF /\ PackFilename = filename
       /\ PackPort = port
       /\ PackResumepos = resumepos
    THEN /\ packs' = [packs EXCEPT ![pack_info].command = "ACCEPT"]
         /\ Download(pack_info)
         /\ NoEmit
         /\ UNCHANGED <<pack_info, stats, killVars>>
    ELSE /\ Emit("dlerror", pack_info, "DCC ACCEPT parameters mismatch")
         /\ UNCHANGED <<pack_info, packs, stats, dl, killVars>>

\* ----------------------------------------------------- _dccDownloadHandler
\* Filtered that does not look at the target of the message
FilteredBySender(m) ==
    m.sender # BotNick \/ m.kind = "text"

Filtered(m) ==
    m.sender # BotNick \/ m.target # OurNick \/ m.kind = "text"

AcceptMatches(m) ==
    /\ PackFilename = m.filename
    /\ PackPort = m.port
    /\ PackResumepos = m.arg5

DccDownloadHandler(m, dirOk) ==
    /\ subscribed
    /\ IF finished \/ Filtered(m)
       THEN NoEmit /\ UNCHANGED <<pack_info, packs, stats, dl, killVars>>
       ELSE IF m.kind = "garbage"
       THEN /\ Emit("dlerror", 0, "Invalid DCC message format")
            /\ UNCHANGED <<pack_info, packs, stats, dl, killVars>>
       ELSE IF m.cmd = "SEND"
       THEN HandleDccSend(m.filename, m.port, m.arg5, dirOk)
       ELSE IF m.cmd = "ACCEPT"
       THEN HandleDccAccept(m.filename, m.port, m.arg5)
       ELSE /\ Emit("dlerror", pack_info, "Unknown DCC command")
            /\ UNCHANGED <<pack_info, packs, stats, dl, killVars>>
    /\ UNCHANGED <<args, started, cancelled, subscribed, listeners, unlinks,
                   part, final, ircOut>>

\* client.emit('ctcp-privmsg', ...): the IRC session gives its next event to
\* the handler the Transfer subscribed, if it has
CtcpPrivmsg(dirOk) ==
    /\ ircIn.queue # <<>>
    /\ ircIn' = [queue |-> Tail(ircIn.queue),
                 handled |-> IF subscribed THEN ircIn.handled + 1 ELSE ircIn.handled]
    /\ IF subscribed
       THEN DccDownloadHandler(Head(ircIn.queue), dirOk)
       ELSE UNCHANGED requestVars

\* ------------------------------------------- _download: the write stream
\* the pack object a download's closure holds, and its location
PackOf(d) == packs[dl[d].pack]
PathOf(d) == PackOf(d).filename

\* stream 'open': the file exists from now on; the closure's counters start
\* at pack.resumepos; net.connect is called, and throws a RangeError out of
\* the callback for a port that is none
StreamOpen(d) ==
    /\ dl[d].st = "opening"
    /\ dl' = [dl EXCEPT ![d].st = IF PackOf(d).port > MaxPort
                                  THEN "threw"
                                  ELSE "connecting",
                        ![d].received = PackOf(d).resumepos,
                        ![d].ack = PackOf(d).resumepos]
    /\ part' = [part EXCEPT ![PathOf(d)] = IF @ = Absent THEN 0 ELSE @]
    /\ NoEmit
    /\ UNCHANGED <<args, started, cancelled, subscribed, listeners, pack_info,
                   packs, stats, unlinks, final, ircOut, killVars>>

\* stream 'error': the open failed, or the write of a queued chunk did; the
\* stream is destroyed and drops what it has queued
StreamError(d) ==
    /\ dl[d].st = "opening" \/ dl[d].pending # <<>>
    /\ dl' = [dl EXCEPT ![d].st = IF @ = "opening" THEN "failed" ELSE @,
                        ![d].pending = <<>>]
    /\ IF finished
       THEN NoEmit /\ UNCHANGED killVars
       ELSE Emit("dlerror", dl[d].pack, "File error") /\ KillRequest
    /\ UNCHANGED <<args, started, cancelled, subscribed, listeners, pack_info,
                   packs, stats, unlinks, part, final, ircOut>>

\* ------------------------------------------- _download: the data channel
\* the callback of net.connect
ConnConnect(d) ==
    /\ dl[d].st = "connecting"
    /\ dl' = [dl EXCEPT ![d].st = "connected"]
    /\ Emit("connect", dl[d].pack, "")
    /\ timers' = timers \cup {d}
    /\ intervalId' = d
    /\ UNCHANGED <<args, started, cancelled, finished, handlerBound, subscribed,
                   listeners, killTimer, pack_info, packs, stats, unlinks, part,
                   final, ircOut>>

\* a tick of the progress interval set by the callback of net.connect
ProgressTick(d) ==
    /\ d \in timers
    /\ IF ~finished
       THEN EmitProgress(dl[d].pack, dl[d].received)
       ELSE NoEmit
    /\ UNCHANGED <<args, started, cancelled, subscribed, listeners, pack_info,
                   packs, stats, unlinks, dl, part, final, ircOut, killVars>>

\* while (ack > 0xFFFFFFFF) ack -= 0xFFFFFFFF + 1
RECURSIVE AckWrap(_)
AckWrap(ack) ==
    IF ack > AckMax THEN AckWrap(ack - (AckMax + 1)) ELSE ack

\* OnData with the ACK written only once the file position is even: a chunk
\* that leaves it odd is acknowledged together with the next one
OnDataBatched(c, len) ==
    LET ack == AckWrap(c.ack + len) IN
    [c EXCEPT !.received = @ + len,
              !.ack = ack,
              !.nAcks = IF ack % 2 = 0 THEN @ + 1 ELSE @,
              !.lastAck = IF ack % 2 = 0 THEN ack ELSE @,
              !.appended = @ + len,
              !.pending = Append(@, len)]

\* the closure of a download after a chunk of len blocks, not finished:
\* stream.write(data) queues the chunk
OnData(c, len) ==
    LET ack == AckWrap(c.ack + len) IN
    [c EXCEPT !.received = @ + len,
              !.ack = ack,
              !.nAcks = @ + 1,
              !.lastAck = ack,
              !.appended = @ + len,
              !.pending = Append(@, len)]

\* conn 'data'
ConnData(d, len) ==
    /\ dl[d].st = "connected"
    /\ IF finished
       THEN UNCHANGED dl
       ELSE dl' = [dl EXCEPT ![d] = [OnData(@, len) EXCEPT !.nChunks = @ + 1]]
    /\ NoEmit
    /\ UNCHANGED <<args, started, cancelled, subscribed, listeners, pack_info,
                   packs, stats, unlinks, part, final, ircOut, killVars>>

\* the write stream writes its oldest queued chunk to the file (flags 'a':
\* at the end of the file its descriptor refers to)
StreamFlush(d) ==
    /\ dl[d].pending # <<>>
    /\ dl' = [dl EXCEPT ![d].pending = Tail(@)]
    /\ part' = [part EXCEPT ![PathOf(d)] =
                   IF @ = Absent THEN @ ELSE @ + Head(dl[d].pending)]
    /\ NoEmit
    /\ UNCHANGED <<args, started, cancelled, subscribed, listeners, pack_info,
                   packs, stats, unlinks, final, ircOut, killVars>>

\* whether conn 'end' renames the .part
RenameOnEnd(received, filesize) == received = filesize

\* conn 'end'
ConnEnd(d) ==
    /\ dl[d].st = "connected"
    /\ IF RenameOnEnd(dl[d].received, PackOf(d).filesize)
       THEN /\ dl' = [dl EXCEPT ![d].st = "renaming"]
            /\ NoEmit
            /\ UNCHANGED killVars
       ELSE /\ dl' = [dl EXCEPT ![d].st = "destroyed"]
            /\ IF ~finished
               THEN Emit("dlerror", dl[d].pack, "Server unexpectedly closed connection")
               ELSE Emit("dlerror", dl[d].pack, "Server closed connection, download canceled")
            /\ KillRequest
    /\ UNCHANGED <<args, started, cancelled, subscribed, listeners, pack_info,
                   packs, stats, unlinks, part, final, ircOut>>

\* RenameCallback with 'complete' emitted whether or not the rename succeeded
RenameCallbackAlwaysComplete(d, ok) ==
    /\ dl[d].st = "renaming"
    /\ ok => part[PathOf(d)] # Absent
    /\ IF ok
       THEN /\ dl' = [dl EXCEPT ![d].st = "renamed"]
            /\ part' = [part EXCEPT ![PathOf(d)] = Absent]
            /\ final' = final \cup {PathOf(d)}
       ELSE /\ dl' = [dl EXCEPT ![d].st = "renameFailed"]
            /\ UNCHANGED <<part, final>>
    /\ Emit("complete", dl[d].pack, "")
    /\ KillRequest
    /\ UNCHANGED <<args, started, cancelled, subscribed, listeners, pack_info,
                   packs, stats, unlinks, ircOut>>

\* the callback of fs.rename; ok is whether the .part was renamed
RenameCallback(d, ok) ==
    /\ dl[d].st = "renaming"
    /\ ok => part[PathOf(d)] # Absent
    /\ IF ok
       THEN /\ dl' = [dl EXCEPT ![d].st = "renamed"]
            /\ part' = [part EXCEPT ![PathOf(d)] = Absent]
            /\ final' = final \cup {PathOf(d)}
            /\ Emit("complete", dl[d].pack, "")
       ELSE /\ dl' = [dl EXCEPT ![d].st = "renameFailed"]
            /\ Emit("dlerror", dl[d].pack, "Failed to rename file")
            /\ UNCHANGED <<part, final>>
    /\ KillRequest
    /\ UNCHANGED <<args, started, cancelled, subscribed, listeners, pack_info,
                   packs, stats, unlinks, ircOut>>

\* conn 'error': the socket is destroyed after it
ConnError(d) ==
    /\ dl[d].st \in {"connecting", "connected"}
    /\ dl' = [dl EXCEPT ![d].st = "destroyed"]
    /\ IF finished
       THEN NoEmit /\ UNCHANGED killVars
       ELSE Emit("dlerror", dl[d].pack, "Connection error") /\ KillRequest
    /\ UNCHANGED <<args, started, cancelled, subscribed, listeners, pack_info,
                   packs, stats, unlinks, part, final, ircOut>>

\* ConnTimeout that destroys the socket and leaves the Transfer running
ConnTimeoutNoKill(d) ==
    /\ dl[d].st \in {"connecting", "connected"}
    /\ ~finished
    /\ dl' = [dl EXCEPT ![d].st = "destroyed"]
    /\ Emit("dlerror", dl[d].pack, "Connection timed out")
    /\ UNCHANGED killVars
    /\ UNCHANGED <<args, started, cancelled, subscribed, listeners, pack_info,
                   packs, stats, unlinks, part, final, ircOut>>

\* the 60 s idle timeout of conn
ConnTimeout(d) ==
    /\ dl[d].st \in {"connecting", "connected"}
    /\ ~finished
    /\ dl' = [dl EXCEPT ![d].st = "destroyed"]
    /\ Emit("dlerror", dl[d].pack, "Connection timed out")
    /\ KillRequest
    /\ UNCHANGED <<args, started, cancelled, subscribed, listeners, pack_info,
                   packs, stats, unlinks, part, final, ircOut>>

\* ------------------------------------------------- server.js: the sockets
\* safeSocketWrite(socket, data): the envelopes of each socket after it;
\* socket 0 is null
SafeSocketWrite(o, sk, c, env) ==
    IF c # 0 /\ sk[c] = "open"
    THEN [o EXCEPT ![c] = Append(@, env)]
    ELSE o

\* safeSocketEnd(socket): the sockets after it
SafeSocketEnd(sk, c) ==
    IF c # 0 /\ sk[c] = "open"
    THEN [sk EXCEPT ![c] = "ended"]
    ELSE sk

Envelope(status, message, pack_number) ==
    [status |-> status, message |-> message, pack_number |-> pack_number]

\* JSON.parse of a request text: the nesting depth after s
RECURSIVE Depth(_)
Depth(s) ==
    IF s = <<>>
    THEN 0
    ELSE LET d == Depth(SubSeq(s, 1, Len(s) - 1))
             t == s[Len(s)]
         IN  IF t = "{" THEN d + 1 ELSE IF t = "}" THEN d - 1 ELSE d

\* JSON.parse(s) returns an object (it throws a SyntaxError otherwise)
Parses(s) ==
    /\ Len(s) >= 2
    /\ s[1] = "{"
    /\ Depth(s) = 0
    /\ \A i \in 1..(Len(s) - 1) : Depth(SubSeq(s, 1, i)) >= 1

\* the parsed object has the member t
Member(s, t) ==
    \E i \in 1..Len(s) : s[i] = t /\ Depth(SubSeq(s, 1, i - 1)) = 1

\* requestData.endsWith('}')
EndsWithBrace(s) == s # <<>> /\ s[Len(s)] = "}"

\* net.createServer callback: a client connects and will send text
ApiConnection(c, text) ==
    /\ sock[c] = "none"
    /\ sock' = [sock EXCEPT ![c] = "open"]
    /\ input' = [input EXCEPT ![c] = text]
    /\ UNCHANGED <<requestData, out, closeHandler, owner, trackers,
                   activeDownloads, endTimers>>
    /\ UNCHANGED requestVars

\* RejectRequest that leaves the socket open after the envelope
RejectRequestNoEnd(c, message) ==
    /\ out' = SafeSocketWrite(out, sock, c, Envelope("error", message, ""))
    /\ UNCHANGED <<sock, closeHandler, owner>>
    /\ UNCHANGED requestVars

\* the error answer of the 'data' handler: an envelope, then safeSocketEnd
RejectRequest(c, message) ==
    /\ out' = SafeSocketWrite(out, sock, c, Envelope("error", message, ""))
    /\ sock' = SafeSocketEnd(sock, c)
    /\ UNCHANGED <<closeHandler, owner>>
    /\ UNCHANGED requestVars

\* socket 'data': the next n tokens of the client's text arrive
ApiData(c, n) ==
    LET data == SubSeq(input[c], 1, n)
        buffered == requestData[c] \o data
    IN
    /\ sock[c] \in {"open", "ended"}
    /\ n \in 1..Len(input[c])
    /\ input' = [input EXCEPT ![c] = SubSeq(@, n + 1, Len(@))]
    /\ UNCHANGED <<trackers, activeDownloads, endTimers>>
    /\ IF TextSize(buffered) > MaxRequest
       THEN /\ requestData' = [requestData EXCEPT ![c] = buffered]
            /\ RejectRequest(c, "Request too large")
       ELSE IF ~Parses(buffered)
       THEN /\ requestData' = [requestData EXCEPT ![c] = buffered]
            /\ IF ~EndsWithBrace(buffered)
               THEN UNCHANGED <<sock, out, closeHandler, owner>> /\ UNCHANGED requestVars
               ELSE RejectRequest(c, "Invalid request")
       ELSE /\ requestData' = [requestData EXCEPT ![c] = <<>>]
            /\ IF ~Member(buffered, "bot") \/ ~Member(buffered, "pack")
               THEN RejectRequest(c, "Invalid request")
               ELSE /\ out' = SafeSocketWrite(out, sock, c,
                                   Envelope("downloading", "Started download request",
                                            PackNumber))
                    /\ owner' = [socket |-> c,
                                 sendProgress |-> Member(buffered, "prog")]
                    /\ HandleStart
                    /\ closeHandler' = [closeHandler EXCEPT ![c] = TRUE]
                    /\ UNCHANGED sock

\* ApiSocketClose that also cancels the Transfer of the socket
ApiSocketCloseCancels(c) ==
    /\ sock[c] \in {"open", "ended"}
    /\ sock' = [sock EXCEPT ![c] = "closed"]
    /\ trackers' =
         [i \in DOMAIN trackers |->
            IF trackers[i].socket = c
            THEN [trackers[i] EXCEPT !.socket = 0]
            ELSE trackers[i]]
    /\ IF closeHandler[c] /\ ~finished
       THEN Say("XDCC CANCEL", "", 0, 0) /\ KillRequest
       ELSE UNCHANGED <<ircOut, killVars>>
    /\ UNCHANGED <<input, requestData, out, closeHandler, owner, activeDownloads,
                   endTimers>>
    /\ UNCHANGED <<args, started, cancelled, subscribed, listeners, pack_info,
                   packs, stats, unlinks, dl, part, final, emitted, lastEmit>>

\* socket 'close' (the client went away, or the socket was destroyed after an
\* error): the handler attached by an accepted request detaches the socket
ApiSocketClose(c) ==
    /\ sock[c] \in {"open", "ended"}
    /\ sock' = [sock EXCEPT ![c] = "closed"]
    /\ trackers' =
         IF closeHandler[c]
         THEN [i \in DOMAIN trackers |->
                 IF (\E k \in DOMAIN activeDownloads : activeDownloads[k] = i)
                    /\ trackers[i].socket = c
                 THEN [trackers[i] EXCEPT !.socket = 0]
                 ELSE trackers[i]]
         ELSE trackers
    /\ UNCHANGED <<input, requestData, out, closeHandler, owner, activeDownloads,
                   endTimers>>
    /\ UNCHANGED requestVars

\* the 60 s idle timeout of an API socket
ApiSocketTimeout(c) ==
    /\ sock[c] = "open"
    /\ sock' = SafeSocketEnd(sock, c)
    /\ UNCHANGED <<input, requestData, out, closeHandler, owner, trackers,
                   activeDownloads, endTimers>>
    /\ UNCHANGED requestVars

\* ------------------------------------------------ server.js: xdccHandlers
\* downloadId of the pack an event carries: filename|port, or "unknown" for
\* null and {}
DownloadId(p) ==
    IF p = 0 THEN <<"unknown">> ELSE <<packs'[p].filename, packs'[p].port>>

Without(f, k) == [x \in DOMAIN f \ {k} |-> f[x]]

\* the listener of 'connect' (once): the registry entry of the download
OnConnect(p) ==
    /\ trackers' = Append(trackers, [socket |-> owner.socket,
                                     packNumber |-> PackNumber,
                                     sendProgress |-> owner.sendProgress,
                                     age |-> 0])
    /\ activeDownloads' =
         [k \in DOMAIN activeDownloads \cup {DownloadId(p)} |->
            IF k = DownloadId(p) THEN Len(trackers) + 1 ELSE activeDownloads[k]]
    /\ UNCHANGED <<sock, input, requestData, out, closeHandler, owner, endTimers>>

\* xdccHandlers.progress
\* Math.floor((received / pack.filesize) * 100): a division by zero gives
\* NaN or Infinity, which Math.floor returns unchanged; with the sizes of this
\* model the double arithmetic gives the exact quotient otherwise
Percent(received, filesize) ==
    IF filesize = 0
    THEN IF received = 0 THEN NaN ELSE Infinity
    ELSE (received * 100) \div filesize

\* the progressUpdate object: an envelope with the percent and the two sizes
ProgressUpdate(received, filesize) ==
    [status |-> "progress", message |-> "", pack_number |-> "",
     progress |-> Percent(received, filesize),
     received |-> received, total |-> filesize]

OnProgress(p, received) ==
    LET id == DownloadId(p) IN
    /\ IF id \in DOMAIN activeDownloads /\ trackers[activeDownloads[id]].socket # 0
       THEN out' = SafeSocketWrite(out, sock, trackers[activeDownloads[id]].socket,
                                   ProgressUpdate(received, packs'[p].filesize))
       ELSE UNCHANGED out
    /\ UNCHANGED <<sock, input, requestData, closeHandler, owner, trackers,
                   activeDownloads, endTimers>>

\* xdccHandlers.complete and xdccHandlers.error: a terminal envelope
OnTerminal(p, status, message) ==
    LET id == DownloadId(p) IN
    /\ IF id \in DOMAIN activeDownloads /\ trackers[activeDownloads[id]].socket # 0
       THEN /\ out' = SafeSocketWrite(out, sock, trackers[activeDownloads[id]].socket,
                                      Envelope(status, message,
                                               trackers[activeDownloads[id]].packNumber))
            /\ endTimers' = endTimers \cup {[tracker |-> activeDownloads[id], id |-> id]}
            /\ UNCHANGED activeDownloads
       ELSE /\ activeDownloads' = Without(activeDownloads, id)
            /\ UNCHANGED <<out, endTimers>>
    /\ UNCHANGED <<sock, input, requestData, closeHandler, owner, trackers>>

\* the listeners server.js attached to the Request, run by the emit of this
\* step (none after removeAllListeners)
Forward ==
    IF emitted' = emitted \/ ~listeners
    THEN UNCHANGED apiVars
    ELSE IF lastEmit'.ev = "connect"
    THEN IF emitted.connect = 0
         THEN OnConnect(lastEmit'.pack)
         ELSE UNCHANGED apiVars
    ELSE IF lastEmit'.ev = "progress"
    THEN OnProgress(lastEmit'.pack, lastEmit'.received)
    ELSE IF lastEmit'.ev = "complete"
    THEN OnTerminal(lastEmit'.pack, "success", "")
    ELSE OnTerminal(lastEmit'.pack, "error", lastEmit'.msg)

\* the write callback of a terminal envelope and its 200 ms timeout
ApiEndTimer(t) ==
    /\ t \in endTimers
    /\ endTimers' = endTimers \ {t}
    /\ sock' = SafeSocketEnd(sock, trackers[t.tracker].socket)
    /\ activeDownloads' = Without(activeDownloads, t.id)
    /\ UNCHANGED <<input, requestData, out, closeHandler, owner, trackers>>
    /\ UNCHANGED requestVars

\* the registry entries, and time passing: an hour more on the clock
Registered(i) == \E k \in DOMAIN activeDownloads : activeDownloads[k] = i
HourPasses ==
    /\ \E i \in DOMAIN trackers : Registered(i) /\ trackers[i].age < MaxAge
    /\ trackers' =
         [i \in DOMAIN trackers |->
            IF Registered(i) /\ trackers[i].age < MaxAge
            THEN [trackers[i] EXCEPT !.age = @ + 1]
            ELSE trackers[i]]
    /\ UNCHANGED <<sock, input, requestData, out, closeHandler, owner,
                   activeDownloads, endTimers>>
    /\ UNCHANGED requestVars

\* Stale that looks at the socket only
StaleAnyAge(t) == t.socket = 0

\* the entries a sweep drops
Stale(t) == t.socket = 0 /\ t.age > StaleHours

\* the 30 min interval: entries without socket older than one hour are dropped
ApiCleanup ==
    /\ \E k \in DOMAIN activeDownloads : Stale(trackers[activeDownloads[k]])
    /\ activeDownloads' =
         [k \in {x \in DOMAIN activeDownloads :
                   ~Stale(trackers[activeDownloads[x]])} |-> activeDownloads[k]]
    /\ UNCHANGED <<sock, input, requestData, out, closeHandler, owner, trackers,
                   endTimers>>
    /\ UNCHANGED requestVars

\* ----------------------------------------------- server.js: the process
\* an exception left a callback of this step uncaught
Thrown ==
    \E d \in 1..Len(dl) : dl[d].st # "threw" /\ dl'[d].st = "threw"

\* process.on('uncaughtException'): log it, end the log stream, then exit(1)
OnUncaughtException ==
    proc' = IF Thrown THEN [proc EXCEPT !.crash = TRUE] ELSE proc

\* the process runs until process.exit
Alive == proc.code = NoExit

\* process.on('SIGINT'): server.close(callback) stops the listener
Sigint ==
    /\ proc.phase = "running"
    /\ proc' = [proc EXCEPT !.phase = "closing"]
    /\ UNCHANGED <<requestVars, apiVars, ircIn, pair>>

\* the callback of server.close, called once every connection has closed:
\* client.disconnect('Shutting down', callback)
ServerClosed ==
    /\ proc.phase = "closing"
    /\ \A c \in Socks : sock[c] \in {"none", "closed"}
    /\ proc' = [proc EXCEPT !.phase = "disconnecting"]
    /\ Say("QUIT", "", 0, 0)
    /\ UNCHANGED <<args, started, cancelled, subscribed, listeners, pack_info,
                   packs, stats, unlinks, dl, part, final, emitted, lastEmit,
                   killVars>>
    /\ UNCHANGED <<apiVars, ircIn, pair>>

\* the callback of client.disconnect: logStream.end(callback)
IrcDisconnected ==
    /\ proc.phase = "disconnecting"
    /\ proc' = [proc EXCEPT !.phase = "logging"]
    /\ UNCHANGED <<requestVars, apiVars, ircIn, pair>>

\* the callback of logStream.end in the SIGINT handler: process.exit(0)
LogClosed ==
    /\ proc.phase = "logging"
    /\ proc' = [proc EXCEPT !.phase = "exited", !.code = 0]
    /\ UNCHANGED <<requestVars, apiVars, ircIn, pair>>

\* the callback of logStream.end in the uncaughtException handler:
\* process.exit(1)
CrashExit ==
    /\ proc.crash
    /\ proc' = [proc EXCEPT !.phase = "exited", !.code = 1]
    /\ UNCHANGED <<requestVars, apiVars, ircIn, pair>>

\* ------------------------------- Transfers that share the IRC session
\* Each API request makes a Request of its own on the one IRC client. Here
\* the bot sends no data: every .part is empty, every resumepos is 0, and a
\* Transfer is followed through one offer and one download.
OtherBot == "Bot|B"
PairMessages ==
    { Msg(BotNick, OurNick, "dcc", "SEND", "a.bin", 5000, 2),
      Msg(OtherBot, OurNick, "dcc", "SEND", "b.bin", 5001, 2),
      Msg(BotNick, OurNick, "dcc", "ACCEPT", "a.bin", 5000, 0),
      Msg(BotNick, "#chan", "dcc", "SEND", "a.bin", 5000, 2) }

\* the 'data' handler makes the Request of a valid API request for the bot
\* nick and emits 'start': _handleStart subscribes its handler
PairRequest(t, nick) ==
    /\ ~pair.reqs[t].started
    /\ pair' = [pair EXCEPT !.reqs[t].started = TRUE, !.reqs[t].nick = nick]
    /\ UNCHANGED <<requestVars, apiVars, proc, ircIn>>

\* _download of a Transfer
PairDownload(r) ==
    IF r.finished \/ r.stream # "none" THEN r ELSE [r EXCEPT !.stream = "opening"]

\* _dccDownloadHandler of a Transfer, given the message m
PairHandler(r, m) ==
    IF ~r.started \/ r.finished
    THEN r
    ELSE IF m.sender # r.nick \/ m.target # OurNick \/ m.kind = "text"
    THEN r
    ELSE IF m.cmd = "SEND"
    THEN [r EXCEPT !.pack = <<m.filename, m.port>>, !.stat = TRUE]
    ELSE IF m.cmd = "ACCEPT" /\ r.pack = <<m.filename, m.port>> /\ m.arg5 = 0
    THEN PairDownload(r)
    ELSE r

\* client.emit('ctcp-privmsg', ...): every subscribed handler is called
PairCtcp(m) ==
    /\ m.cmd = "SEND" =>
          \A t \in Transfers :
              PairHandler(pair.reqs[t], m) # pair.reqs[t] => pair.reqs[t].pack = <<>>
    /\ pair' = [pair EXCEPT !.reqs = [t \in Transfers |-> PairHandler(pair.reqs[t], m)]]
    /\ pair' # pair
    /\ UNCHANGED <<requestVars, apiVars, proc, ircIn>>

\* the callback of fs.stat: DCC RESUME if the .part exists, else _download
PairStat(t) ==
    /\ pair.reqs[t].stat
    /\ pair' = [pair EXCEPT !.reqs[t] =
                   IF @.pack[1] \in pair.parts
                   THEN [@ EXCEPT !.stat = FALSE]
                   ELSE [PairDownload(@) EXCEPT !.stat = FALSE]]
    /\ UNCHANGED <<requestVars, apiVars, proc, ircIn>>

\* stream 'open': the .part exists; net.connect
PairStreamOpen(t) ==
    /\ pair.reqs[t].stream = "opening"
    /\ pair' = [pair EXCEPT !.reqs[t].stream = "open",
                            !.reqs[t].conn = "connecting",
                            !.parts = @ \cup {pair.reqs[t].pack[1]}]
    /\ UNCHANGED <<requestVars, apiVars, proc, ircIn>>

\* the callback of net.connect
PairConnConnect(t) ==
    /\ pair.reqs[t].conn = "connecting"
    /\ pair' = [pair EXCEPT !.reqs[t].conn = "connected"]
    /\ UNCHANGED <<requestVars, apiVars, proc, ircIn>>

\* conn 'end' with nothing received: stream.end, 'dlerror', destroy, kill
PairConnEnd(t) ==
    /\ pair.reqs[t].conn = "connected"
    /\ pair' = [pair EXCEPT !.reqs[t].conn = "destroyed",
                            !.reqs[t].stream = "ended",
                            !.reqs[t].finished = TRUE]
    /\ UNCHANGED <<requestVars, apiVars, proc, ircIn>>

\* ------------------------------------------------------------- the bounds
RECURSIVE SumChunks(_)
SumChunks(n) == IF n = 0 THEN 0 ELSE dl[n].nChunks + SumChunks(n - 1)
\* chunks processed so far, over all data channels
ChunksSent == SumChunks(Len(dl))

\* a CTCP message that is delivered in this state: at most maxSend offers, at
\* most maxDl downloads, no 'dlerror' raised past maxErr (dirOk is an input
\* of a DCC SEND only)
CtcpInBounds(m, dirOk, maxSend, maxDl, maxErr) ==
    IF finished \/ Filtered(m)
    THEN dirOk
    ELSE IF m.kind = "dcc" /\ m.cmd = "SEND"
    THEN Len(packs) < maxSend /\ (~dirOk => emitted.dlerror < maxErr)
    ELSE IF m.kind = "dcc" /\ m.cmd = "ACCEPT" /\ AcceptMatches(m)
    THEN dirOk /\ Len(dl) < maxDl
    ELSE dirOk /\ emitted.dlerror < maxErr

\* a callback of fs.stat or fs.unlink that would call _download past maxDl
\* downloads is not taken
StatInBounds(i, maxDl) ==
    (~finished /\ part[stats[i]] = Absent) => Len(dl) < maxDl
UnlinkInBounds(ok, maxDl) ==
    (~finished /\ ok) => Len(dl) < maxDl

\* ---------------------------------------------------------- specifications
Step(maxSend, maxDl, maxErr, maxData, maxTicks) ==
    \/ HandleStart /\ UNCHANGED <<apiVars, envVars>>
    \/ HandleCancel /\ UNCHANGED <<apiVars, envVars>>
    \/ KillTimeout /\ UNCHANGED <<apiVars, envVars>>
    \/ \E m \in CtcpMessages, dirOk \in BOOLEAN :
         /\ CtcpInBounds(m, dirOk, maxSend, maxDl, maxErr)
         /\ DccDownloadHandler(m, dirOk)
         /\ UNCHANGED <<apiVars, envVars>>
    \/ \E i \in 1..Len(stats) :
         StatInBounds(i, maxDl) /\ StatCallback(i) /\ UNCHANGED <<apiVars, envVars>>
    \/ \E d \in 1..Len(dl) : StreamOpen(d) /\ UNCHANGED <<apiVars, envVars>>
    \/ \E d \in 1..Len(dl) : StreamError(d) /\ UNCHANGED <<apiVars, envVars>>
    \/ \E d \in 1..Len(dl) : ConnConnect(d) /\ UNCHANGED <<apiVars, envVars>>
    \/ \E d \in 1..Len(dl) :
         emitted.progress < maxTicks /\ ProgressTick(d) /\ UNCHANGED <<apiVars, envVars>>
    \/ \E d \in 1..Len(dl), len \in ChunkLens :
         ChunksSent < maxData /\ ConnData(d, len) /\ UNCHANGED <<apiVars, envVars>>
    \/ \E d \in 1..Len(dl) : StreamFlush(d) /\ UNCHANGED <<apiVars, envVars>>
    \/ \E d \in 1..Len(dl) : ConnEnd(d) /\ UNCHANGED <<apiVars, envVars>>
    \/ \E d \in 1..Len(dl), ok \in BOOLEAN :
         RenameCallback(d, ok) /\ UNCHANGED <<apiVars, envVars>>
    \/ \E d \in 1..Len(dl) : ConnError(d) /\ UNCHANGED <<apiVars, envVars>>
    \/ \E d \in 1..Len(dl) : ConnTimeout(d) /\ UNCHANGED <<apiVars, envVars>>

Next == Step(MaxSend, MaxDl, MaxErrors, MaxData, MaxTicks)
Spec == Init /\ [][Next]_vars

\* the timers of the event loop fire and the callbacks of the file system are
\* called: the idle timeout of a data channel that stays silent, and the
\* callback of fs.rename
LiveFairness ==
    /\ WF_vars(\E d \in 1..Len(dl) : ConnTimeout(d) /\ UNCHANGED <<apiVars, envVars>>)
    /\ WF_vars(\E d \in 1..Len(dl), ok \in BOOLEAN :
                 RenameCallback(d, ok) /\ UNCHANGED <<apiVars, envVars>>)
SpecLive == Init /\ [][Next]_vars /\ LiveFairness

NextRace == Step(RaceSend, MaxDl, RaceErrors, RaceData, MaxTicks)
SpecRace == Init /\ [][NextRace]_vars

\* a directory with a whole a.bin.part, and a bot that offers a.bin and the
\* empty b.bin, accepts at offset 0 or at the size of a.bin, sends no data
\* and closes its data channels; up to two offers and two data channels
WholeCtcpMessages ==
    { m \in CtcpMessages :
        /\ ~Filtered(m)
        /\ m.kind = "dcc"
        /\ (m.filename = "a.bin" /\ m.port = 5000) \/ (m.filename = "b.bin" /\ m.port = 5001)
        /\ (m.cmd = "SEND") => (m.arg5 = IF m.filename = "a.bin" THEN 2 ELSE 0)
        /\ (m.cmd = "ACCEPT") => (m.arg5 \in {0, 2}) }

InitWhole ==
    /\ Init
    /\ part["a.bin"] = 2
    /\ final = {}

NextWhole ==
    \/ HandleStart /\ UNCHANGED <<apiVars, envVars>>
    \/ KillTimeout /\ UNCHANGED <<apiVars, envVars>>
    \/ \E m \in WholeCtcpMessages :
         /\ CtcpInBounds(m, TRUE, RaceSend, TwoDl, RaceErrors)
         /\ DccDownloadHandler(m, TRUE)
         /\ UNCHANGED <<apiVars, envVars>>
    \/ \E i \in 1..Len(stats) :
         StatInBounds(i, TwoDl) /\ StatCallback(i) /\ UNCHANGED <<apiVars, envVars>>
    \/ \E d \in 1..Len(dl) : StreamOpen(d) /\ UNCHANGED <<apiVars, envVars>>
    \/ \E d \in 1..Len(dl) : ConnConnect(d) /\ UNCHANGED <<apiVars, envVars>>
    \/ \E d \in 1..Len(dl) : ConnEnd(d) /\ UNCHANGED <<apiVars, envVars>>
    \/ \E d \in 1..Len(dl), ok \in BOOLEAN :
         RenameCallback(d, ok) /\ UNCHANGED <<apiVars, envVars>>
SpecWhole == InitWhole /\ [][NextWhole]_vars

\* the Request behind the API front-end: start comes from an accepted
\* request, every emit runs the listeners of server.js. The bot offers a.bin
\* of two blocks, the directory is empty or holds a.bin.part of one block.
ApiCtcpMessages ==
    { m \in CtcpMessages :
        /\ ~Filtered(m)
        /\ (m.kind = "dcc") => (m.filename = "a.bin" /\ m.port = 5000)
        /\ (m.kind = "dcc" /\ m.cmd = "SEND") => (m.arg5 = 2)
        /\ (m.kind = "dcc" /\ m.cmd = "ACCEPT") => (m.arg5 \in {0, 1}) }

InitApi ==
    /\ Init
    /\ part["a.bin"] \in {Absent, 1}
    /\ final = {}

NextApi ==
    \/ \E c \in Socks, text \in RequestTexts : ApiConnection(c, text) /\ UNCHANGED envVars
    \/ \E c \in Socks : \E n \in 1..Len(input[c]) : ApiData(c, n) /\ UNCHANGED envVars
    \/ \E c \in Socks : ApiSocketClose(c) /\ UNCHANGED envVars
    \/ \E c \in Socks : ApiSocketTimeout(c) /\ UNCHANGED envVars
    \/ \E t \in endTimers : ApiEndTimer(t) /\ UNCHANGED envVars
    \/ HourPasses /\ UNCHANGED envVars
    \/ ApiCleanup /\ UNCHANGED envVars
    \/ KillTimeout /\ Forward /\ UNCHANGED envVars
    \/ \E m \in ApiCtcpMessages, dirOk \in BOOLEAN :
         /\ CtcpInBounds(m, dirOk, MaxSend, MaxDl, MaxErrors)
         /\ DccDownloadHandler(m, dirOk)
         /\ Forward /\ UNCHANGED envVars
    \/ \E i \in 1..Len(stats) : StatInBounds(i, MaxDl) /\ StatCallback(i) /\ Forward /\ UNCHANGED envVars
    \/ \E d \in 1..Len(dl) : StreamOpen(d) /\ Forward /\ UNCHANGED envVars
    \/ \E d \in 1..Len(dl) : StreamError(d) /\ Forward /\ UNCHANGED envVars
    \/ \E d \in 1..Len(dl) : ConnConnect(d) /\ Forward /\ UNCHANGED envVars
    \/ \E d \in 1..Len(dl) :
         emitted.progress < MaxTicks /\ ProgressTick(d) /\ Forward /\ UNCHANGED envVars
    \/ \E d \in 1..Len(dl), len \in ChunkLens :
         ChunksSent < ApiChunks /\ ConnData(d, len) /\ Forward /\ UNCHANGED envVars
    \/ \E d \in 1..Len(dl) : StreamFlush(d) /\ Forward /\ UNCHANGED envVars
    \/ \E d \in 1..Len(dl) : ConnEnd(d) /\ Forward /\ UNCHANGED envVars
    \/ \E d \in 1..Len(dl), ok \in BOOLEAN : RenameCallback(d, ok) /\ Forward /\ UNCHANGED envVars
    \/ \E d \in 1..Len(dl) : ConnError(d) /\ Forward /\ UNCHANGED envVars
    \/ \E d \in 1..Len(dl) : ConnTimeout(d) /\ Forward /\ UNCHANGED envVars
SpecApi == InitApi /\ [][NextApi]_vars

\* the Transfer and the events queued in the IRC session, from any sender to
\* any target
CtcpQueues ==
    UNION { [1..n -> CtcpMessages] : n \in 1..MaxCtcp }

InitCtcp ==
    /\ args = [resume |-> TRUE]
    /\ Constructed
    /\ Listening
    /\ Running
    /\ ircIn \in [queue : CtcpQueues, handled : {0}]

NextCtcp ==
    \/ HandleStart /\ UNCHANGED <<apiVars, envVars>>
    \/ HandleCancel /\ UNCHANGED <<apiVars, envVars>>
    \/ KillTimeout /\ UNCHANGED <<apiVars, envVars>>
    \/ \E dirOk \in BOOLEAN :
         CtcpPrivmsg(dirOk) /\ UNCHANGED <<apiVars, proc, pair>>
    \/ \E i \in 1..Len(stats) :
         StatCallback(i) /\ UNCHANGED <<apiVars, envVars>>
    \/ \E d \in 1..Len(dl) : StreamOpen(d) /\ UNCHANGED <<apiVars, envVars>>
SpecCtcp == InitCtcp /\ [][NextCtcp]_vars

\* Transfers of API requests for the same bot or for different bots
NextPair ==
    \/ \E t \in Transfers, nick \in {BotNick, OtherBot} : PairRequest(t, nick)
    \/ \E m \in PairMessages : PairCtcp(m)
    \/ \E t \in Transfers : PairStat(t)
    \/ \E t \in Transfers : PairStreamOpen(t)
    \/ \E t \in Transfers : PairConnConnect(t)
    \/ \E t \in Transfers : PairConnEnd(t)
InitPair ==
    /\ Init
    /\ part["a.bin"] = Absent
    /\ final = {}
SpecPair == InitPair /\ [][NextPair]_vars

\* the process: the front-end and its Request until process.exit, with the
\* termination signal; the bot offers a.bin on port 5000 or on port 70000,
\* sends no data and may close the data channel
SupCtcpMessages ==
    { Msg(BotNick, OurNick, "dcc", "SEND", "a.bin", 5000, 2),
      Msg(BotNick, OurNick, "dcc", "SEND", "a.bin", 70000, 2) }

InitSup ==
    /\ Init
    /\ part["a.bin"] = Absent
    /\ final = {}

NextSup ==
    \/ \E c \in Socks, text \in RequestTexts :
         /\ Alive
         /\ proc.phase = "running"
         /\ ApiConnection(c, text)
         /\ UNCHANGED envVars
    \/ \E c \in Socks : \E n \in 1..Len(input[c]) :
         Alive /\ ApiData(c, n) /\ UNCHANGED envVars
    \/ \E c \in Socks : Alive /\ ApiSocketClose(c) /\ UNCHANGED envVars
    \/ \E c \in Socks : Alive /\ ApiSocketTimeout(c) /\ UNCHANGED envVars
    \/ \E t \in endTimers : Alive /\ ApiEndTimer(t) /\ UNCHANGED envVars
    \/ Alive /\ KillTimeout /\ Forward /\ UNCHANGED envVars
    \/ \E m \in SupCtcpMessages :
         /\ Alive
         /\ CtcpInBounds(m, TRUE, MaxSend, MaxDl, MaxErrors)
         /\ DccDownloadHandler(m, TRUE)
         /\ Forward
         /\ UNCHANGED envVars
    \/ \E i \in 1..Len(stats) :
         /\ Alive
         /\ StatInBounds(i, MaxDl)
         /\ StatCallback(i)
         /\ Forward
         /\ UNCHANGED envVars
    \/ \E d \in 1..Len(dl) :
         /\ Alive
         /\ StreamOpen(d)
         /\ Forward
         /\ OnUncaughtException
         /\ UNCHANGED <<ircIn, pair>>
    \/ \E d \in 1..Len(dl) : Alive /\ ConnConnect(d) /\ Forward /\ UNCHANGED envVars
    \/ \E d \in 1..Len(dl) : Alive /\ ConnEnd(d) /\ Forward /\ UNCHANGED envVars
    \/ Alive /\ Sigint
    \/ Alive /\ ServerClosed
    \/ Alive /\ IrcDisconnected
    \/ Alive /\ LogClosed
    \/ Alive /\ CrashExit
SpecSup == InitSup /\ [][NextSup]_vars

\* timers fire and the callbacks of the shutdown are called; nothing makes a
\* client close its connection
SupFairness ==
    /\ WF_vars(Alive /\ ServerClosed)
    /\ WF_vars(Alive /\ IrcDisconnected)
    /\ WF_vars(Alive /\ LogClosed)
    /\ WF_vars(Alive /\ CrashExit)
    /\ WF_vars(\E c \in Socks : Alive /\ ApiSocketTimeout(c) /\ UNCHANGED envVars)
    /\ WF_vars(\E t \in endTimers : Alive /\ ApiEndTimer(t) /\ UNCHANGED envVars)
    /\ WF_vars(Alive /\ KillTimeout /\ Forward /\ UNCHANGED envVars)
SpecSupFair == SpecSup /\ SupFairness

\* the registry through the life of a Transfer to which the bot makes up to
\* two offers (a.bin and the empty b.bin) and sends no data; timers fire and
\* the callbacks of the file system are called, while nothing makes the bot
\* or the API client act
RegTexts == { t \in RequestTexts : t = <<"{", "bot", "pack", "}">> }
RegCtcpMessages ==
    { m \in CtcpMessages :
        /\ ~Filtered(m)
        /\ m.kind = "dcc"
        /\ m.cmd = "SEND"
        /\ m.arg5 \in {0, 2} }

NextReg ==
    \/ \E c \in Socks, text \in RegTexts : ApiConnection(c, text) /\ UNCHANGED envVars
    \/ \E c \in Socks : \E n \in 1..Len(input[c]) : ApiData(c, n) /\ UNCHANGED envVars
    \/ \E c \in Socks : ApiSocketClose(c) /\ UNCHANGED envVars
    \/ \E t \in endTimers : ApiEndTimer(t) /\ UNCHANGED envVars
    \/ HourPasses /\ UNCHANGED envVars
    \/ ApiCleanup /\ UNCHANGED envVars
    \/ KillTimeout /\ Forward /\ UNCHANGED envVars
    \/ \E m \in RegCtcpMessages :
         /\ CtcpInBounds(m, TRUE, RegSend, RegDl, MaxErrors)
         /\ DccDownloadHandler(m, TRUE)
         /\ Forward
         /\ UNCHANGED envVars
    \/ \E i \in 1..Len(stats) :
         StatInBounds(i, RegDl) /\ StatCallback(i) /\ Forward /\ UNCHANGED envVars
    \/ \E d \in 1..Len(dl) : StreamOpen(d) /\ Forward /\ UNCHANGED envVars
    \/ \E d \in 1..Len(dl) : ConnConnect(d) /\ Forward /\ UNCHANGED envVars
    \/ \E d \in 1..Len(dl) : ConnEnd(d) /\ Forward /\ UNCHANGED envVars
    \/ \E d \in 1..Len(dl), ok \in BOOLEAN :
         RenameCallback(d, ok) /\ Forward /\ UNCHANGED envVars
RegFairness ==
    /\ WF_vars(\E t \in endTimers : ApiEndTimer(t) /\ UNCHANGED envVars)
    /\ WF_vars(HourPasses /\ UNCHANGED envVars)
    /\ WF_vars(ApiCleanup /\ UNCHANGED envVars)
    /\ WF_vars(KillTimeout /\ Forward /\ UNCHANGED envVars)
    /\ WF_vars(\E i \in 1..Len(stats) :
                 StatInBounds(i, RegDl) /\ StatCallback(i) /\ Forward /\ UNCHANGED envVars)
    /\ WF_vars(\E d \in 1..Len(dl) : StreamOpen(d) /\ Forward /\ UNCHANGED envVars)
    /\ WF_vars(\E d \in 1..Len(dl), ok \in BOOLEAN :
                 RenameCallback(d, ok) /\ Forward /\ UNCHANGED envVars)
SpecReg == InitApi /\ [][NextReg]_vars /\ RegFairness

\* the same with a progress interval that fires and a bot that sends data
NextProgress ==
    \/ NextReg
    \/ \E d \in 1..Len(dl) :
         emitted.progress < MaxTicks /\ ProgressTick(d) /\ Forward /\ UNCHANGED envVars
    \/ \E d \in 1..Len(dl), len \in ChunkLens :
         ChunksSent < ApiChunks /\ ConnData(d, len) /\ Forward /\ UNCHANGED envVars
    \/ \E d \in 1..Len(dl) : StreamFlush(d) /\ Forward /\ UNCHANGED envVars
SpecProgress == InitApi /\ [][NextProgress]_vars

\* the Request as a library: resume may be disabled
NextAnyArgs ==
    \/ Next
    \/ \E i \in 1..Len(unlinks), ok \in BOOLEAN :
         UnlinkInBounds(ok, MaxDl) /\ UnlinkCallback(i, ok)
         /\ UNCHANGED <<apiVars, envVars>>
SpecAnyArgs == InitAnyArgs /\ [][NextAnyArgs]_vars

\* ------------------------------------------------------------------ claims
Opened(d) == dl[d].st \notin {"opening", "failed"}
Downloads == 1..Len(dl)
Terminals == emitted.complete + emitted.dlerror

\* C1: a Transfer emits at most one terminal event ('complete' or 'dlerror')
\* in total.
C1_AtMostOneTerminal == Terminals <= 1

\* C2: once the Transfer is finished (kill has run), no step emits 'progress',
\* 'complete' or 'dlerror'.
C2_SilentAfterKill ==
    [][finished => /\ emitted'.progress = emitted.progress
                   /\ emitted'.complete = emitted.complete
                   /\ emitted'.dlerror = emitted.dlerror]_vars

\* C3: the Transfer emitted 'complete' exactly for the renames of <name>.part
\* to <name> that succeeded: each successful rename comes with one 'complete',
\* the final file then exists, and there is no 'complete' without one.
Renamed == {d \in Downloads : dl[d].st = "renamed"}
C3_CompleteIffRenamed ==
    /\ emitted.complete = Cardinality(Renamed)
    /\ \A d \in Renamed : PathOf(d) \in final
C3_Witness ==
    /\ emitted.complete = 1
    /\ \E d \in Downloads : dl[d].st = "renamed" /\ dl[d].appended > 0

\* C4: the rename of <name>.part is attempted only with received = file_size
\* and file_size > 0.
RenameAttempted(d) == dl[d].st \in {"renaming", "renamed", "renameFailed"}
C4_RenameOnlyWhenComplete ==
    \A d \in Downloads :
        RenameAttempted(d) =>
            /\ dl[d].received = PackOf(d).filesize
            /\ PackOf(d).filesize > 0

\* C5: with file_size > 0, received is at most file_size.
C5_ReceivedAtMostFilesize ==
    \A d \in Downloads :
        (Opened(d) /\ PackOf(d).filesize > 0) =>
            dl[d].received <= PackOf(d).filesize

\* C6: received starts at resume_pos when the data channel opens, never
\* decreases, and is at least resume_pos in every state.
C6_ReceivedAtLeastResumepos ==
    \A d \in Downloads : Opened(d) => dl[d].received >= PackOf(d).resumepos

\* C7: the bytes handed to the .part write stream since the data channel
\* opened are received - resume_pos.
C7_AppendedIsReceivedMinusResumepos ==
    \A d \in Downloads :
        Opened(d) => dl[d].appended = dl[d].received - PackOf(d).resumepos

\* C8: every ACK frame written carries, at the moment it is written,
\* (resume_pos + bytes appended so far) mod 2^32, a value in 0..2^32-1.
C8_AckIsPositionMod32 ==
    [][\A d \in Downloads :
         dl'[d].nAcks > dl[d].nAcks =>
             /\ dl'[d].lastAck =
                    (packs'[dl[d].pack].resumepos + dl'[d].appended) % (AckMax + 1)
             /\ dl'[d].lastAck \in 0..AckMax]_vars

\* C9: while the Transfer is not finished, each chunk that arrives has exactly
\* one ACK frame written, before the next chunk is processed.
C9_OneAckPerChunk ==
    \A d \in Downloads : dl[d].nAcks = dl[d].nChunks
C9_Witness ==
    \E d \in Downloads : dl[d].nChunks = 2 /\ dl[d].nAcks = 2

\* C10: a step that sends DCC RESUME <filename> <port> <k> finds <filename>.part
\* in the directory, k is its size, and resume_pos becomes k; a step that
\* completes the fs.stat of an offer of a live Transfer without sending a
\* RESUME found no .part of the offered file and opens a download with
\* resume_pos = 0.
ResumeSent ==
    /\ Len(ircOut') = Len(ircOut) + 1
    /\ ircOut'[Len(ircOut')].cmd = "DCC RESUME"
StatDone(i) == i \in 1..Len(stats) /\ stats' = RemoveAt(stats, i)
C10_ResumeIffPartExists ==
    [][/\ ResumeSent =>
            LET r == ircOut'[Len(ircOut')] IN
            /\ r.filename \in Names
            /\ part[r.filename] # Absent
            /\ r.pos = part[r.filename]
            /\ pack_info # 0
            /\ packs'[pack_info].resumepos = r.pos
       /\ \A i \in 1..Len(stats) :
            (StatDone(i) /\ ~finished /\ ~ResumeSent) =>
                /\ part[stats[i]] = Absent
                /\ Len(dl') = Len(dl) + 1
                /\ packs'[dl'[Len(dl')].pack].resumepos = 0]_vars

\* C11: once a DCC RESUME name port k was sent, a data channel is opened
\* (net.connect is called) only for a download started by a DCC ACCEPT of
\* (name, port, k), the fields of the last RESUME.
Resumes == {i \in 1..Len(ircOut) : ircOut[i].cmd = "DCC RESUME"}
LastResume == ircOut[CHOOSE i \in Resumes : \A j \in Resumes : j <= i]
ChannelOpens(d) == dl[d].st = "opening" /\ dl'[d].st = "connecting"
C11_OnlyMatchingAcceptOpens ==
    [][\A d \in Downloads :
         (ChannelOpens(d) /\ Resumes # {}) =>
             /\ PackOf(d).command = "ACCEPT"
             /\ PackOf(d).filename = LastResume.filename
             /\ PackOf(d).port = LastResume.port
             /\ dl[d].called = LastResume.pos]_vars

\* C20: a cancel on an unfinished Transfer sends one XDCC CANCEL and kills it,
\* a cancel on a finished Transfer sends nothing, at most one XDCC CANCEL is
\* ever sent, and after a cancel no 'dlerror' says "Server unexpectedly
\* closed connection".
Cancels == {i \in 1..Len(ircOut) : ircOut[i].cmd = "XDCC CANCEL"}
C20_CancelKillsQuietly ==
    [][/\ (~cancelled /\ cancelled') =>
            IF finished
            THEN ircOut' = ircOut
            ELSE /\ ircOut' = Append(ircOut, [cmd |-> "XDCC CANCEL", filename |-> "",
                                              port |-> 0, pos |-> 0])
                 /\ finished'
       /\ Cardinality(Cancels') <= 1
       /\ (cancelled /\ emitted'.dlerror > emitted.dlerror) =>
            lastEmit'.msg # "Server unexpectedly closed connection"]_vars
C20_Witness ==
    /\ cancelled
    /\ Cancels # {}
    /\ lastEmit.msg = "Server closed connection, download canceled"
    /\ \E d \in Downloads : dl[d].st = "destroyed" /\ dl[d].nChunks > 0

\* ------------------------------------------------- claims on the front-end
\* the text the 'data' handler parses in a step that takes input from c
Arrived(c) == Len(input'[c]) < Len(input[c])
Buffered(c) ==
    requestData[c] \o SubSeq(input[c], 1, Len(input[c]) - Len(input'[c]))
\* the envelopes of a Transfer, as opposed to the answers to a bad request
OfTransfer(e) ==
    \/ e.status \in {"progress", "success"}
    \/ e.status = "error" /\ e.message \notin {"Request too large", "Invalid request"}
TerminalEnvelope(e) == OfTransfer(e) /\ e.status # "progress"

\* C12: a step in which an API socket is ended or closed leaves the Transfer
\* as it is (not killed, nothing sent to the bot), and no envelope is written
\* to a socket once it is ended or closed.
C12_CloseLeavesTransferAlone ==
    [][\A c \in Socks :
         /\ (sock[c] # sock'[c] /\ sock'[c] \in {"ended", "closed"}) =>
                requestVars' = requestVars
         /\ (sock[c] \in {"ended", "closed"}) => out'[c] = out[c]]_vars
C12_Witness ==
    \E c \in Socks :
        /\ sock[c] = "closed"
        /\ owner.socket = c
        /\ emitted.complete = 1
        /\ "a.bin" \in final
        /\ \A i \in 1..Len(out[c]) : out[c][i].status # "success"

\* C13: once the socket of the request is closed, every registry entry of its
\* Transfer has a null socket field.
C13_ClosedSocketDetached ==
    \A k \in DOMAIN activeDownloads :
        (owner.socket # 0 /\ sock[owner.socket] = "closed") =>
            trackers[activeDownloads[k]].socket = 0

\* C14: a step in which the Transfer emits 'dlerror' while the socket of its
\* request is open writes the error envelope with the message and the
\* pack_number to that socket and schedules the end of the socket.
C14_ErrorReachesClient ==
    [][(/\ emitted'.dlerror > emitted.dlerror
        /\ owner.socket # 0
        /\ sock[owner.socket] = "open") =>
           /\ out'[owner.socket] =
                 Append(out[owner.socket],
                        Envelope("error", lastEmit'.msg, PackNumber))
           /\ endTimers' # {}]_vars

\* C15: on each socket at most one terminal envelope (success or error) of
\* the Transfer is written, and no progress, success or error envelope of the
\* Transfer after it.
C15_OneTerminalEnvelope ==
    \A c \in Socks : \A i, j \in 1..Len(out[c]) :
        (i < j /\ TerminalEnvelope(out[c][i])) => ~OfTransfer(out[c][j])

\* C16: a progress envelope is on a socket only if its request had
\* send_progress = true.
C16_ProgressOnlyIfRequested ==
    \A c \in Socks : \A i \in 1..Len(out[c]) :
        out[c][i].status = "progress" => (owner.socket = c /\ owner.sendProgress)

\* C17: the step that accepts a request and starts its Transfer writes the
\* downloading envelope as the first envelope of the socket, so that it comes
\* before every other envelope on the socket of an accepted request.
C17_DownloadingFirst ==
    /\ owner.socket # 0 =>
          /\ out[owner.socket] # <<>>
          /\ out[owner.socket][1].status = "downloading"
    /\ \A c \in Socks : \A i \in 1..Len(out[c]) :
          OfTransfer(out[c][i]) => (i > 1 /\ out[c][1].status = "downloading")

\* C18: a step whose buffered text is over 10 000 characters, or parses
\* without bot_name or pack_number, starts no Transfer and sends nothing to
\* IRC, and, on a socket the server has not ended yet, writes one error
\* envelope and ends the socket.
Rejected(b) ==
    \/ TextSize(b) > MaxRequest
    \/ Parses(b) /\ (~Member(b, "bot") \/ ~Member(b, "pack"))
C18_RejectedRequestIsClosed ==
    [][\A c \in Socks :
         (Arrived(c) /\ Rejected(Buffered(c))) =>
             /\ requestVars' = requestVars
             /\ owner' = owner
             /\ sock[c] = "open" =>
                   /\ Len(out'[c]) = Len(out[c]) + 1
                   /\ out'[c][Len(out'[c])].status = "error"
                   /\ sock'[c] = "ended"]_vars
\* C18 as stated: the error envelope is written whatever the state of the
\* socket.
C18_RejectedAlwaysAnswered ==
    [][\A c \in Socks :
         (Arrived(c) /\ Rejected(Buffered(c))) =>
             /\ Len(out'[c]) = Len(out[c]) + 1
             /\ out'[c][Len(out'[c])].status = "error"]_vars
C18_Witness ==
    \E c \in Socks :
        /\ sock[c] \in {"ended", "closed"}
        /\ out[c] = <<Envelope("error", "Request too large", "")>>
        /\ ~started
        /\ ircOut = <<>>

\* C19: a step whose buffered text does not parse and is within the cap
\* gives no answer and leaves the socket as it is, wherever the segment
\* boundary falls.
C19_WaitsForMoreData ==
    [][\A c \in Socks :
         (/\ Arrived(c)
          /\ ~Parses(Buffered(c))
          /\ TextSize(Buffered(c)) <= MaxRequest) =>
             /\ out'[c] = out[c]
             /\ sock'[c] = sock[c]
             /\ requestVars' = requestVars]_vars

\* ------------------------------------------------ claims on kill and errors
\* C21: every step that emits 'dlerror' leaves the Transfer killed
\* (finished = true), whatever the kind of the error.
C21_DlerrorKills ==
    [][emitted'.dlerror > emitted.dlerror => finished']_vars

\* C24: the Transfer's CTCP-PRIVMSG handler is a listener of the IRC session
\* exactly while the Transfer is started and not finished.
C24_HandlersAreLiveTransfers ==
    subscribed <=> (started /\ ~finished)

\* C25: a finished Transfer has no data socket that is connecting or
\* connected, and no progress interval running.
LiveSockets == {d \in Downloads : dl[d].st \in {"connecting", "connected"}}
C25_KilledHoldsNothing ==
    finished => (LiveSockets = {} /\ timers = {})

\* C30: a step that issues the rename of the .part, or emits 'complete' or
\* 'dlerror' for a download, finds no chunk of that download still queued in
\* its write stream.
RenameIssued(d) == dl[d].st = "connected" /\ dl'[d].st = "renaming"
TerminalEmitted ==
    emitted'.complete + emitted'.dlerror > emitted.complete + emitted.dlerror
C30_TerminalAfterFlush ==
    [][\A d \in Downloads :
         /\ RenameIssued(d) => dl[d].pending = <<>>
         /\ (TerminalEmitted /\ dl'[d].st # dl[d].st) => dl[d].pending = <<>>]_vars

\* ------------------------------------------------- claims on the registry
\* C28: a sweep drops exactly the entries without socket whose age is over
\* one hour, keeps every other entry as it is, and changes neither a tracker
\* nor the Transfer.
Swept ==
    /\ activeDownloads' # activeDownloads
    /\ endTimers' = endTimers
    /\ emitted' = emitted
C28_SweepDropsOnlyStale ==
    [][Swept =>
         /\ DOMAIN activeDownloads' =
               {k \in DOMAIN activeDownloads : ~(/\ trackers[activeDownloads[k]].socket = 0
                                                  /\ trackers[activeDownloads[k]].age > StaleHours)}
         /\ \A k \in DOMAIN activeDownloads' : activeDownloads'[k] = activeDownloads[k]
         /\ trackers' = trackers
         /\ requestVars' = requestVars]_vars
C28_Witness ==
    /\ activeDownloads = <<>>
    /\ endTimers = {}
    /\ trackers # <<>>
    /\ trackers[1].socket = 0
    /\ trackers[1].age > StaleHours
    /\ ~finished
    /\ Terminals = 0
    /\ \E d \in Downloads : dl[d].st = "connected"

\* -------------------------------------------------- claims on the process
\* C22: a step in which a callback of the Transfer throws leaves the process
\* as it is (no exit pending), emits one 'dlerror' and kills the Transfer.
C22_ExceptionBecomesDlerror ==
    [][Thrown =>
         /\ proc' = proc
         /\ emitted'.dlerror = emitted.dlerror + 1
         /\ finished']_vars

\* C23: after the termination signal the process stops the listener, then
\* disconnects from IRC with a quit message, then closes the log, then exits
\* with code 0, and it always gets to the exit, whatever connections are open.
ShutdownOrder ==
    { <<"running", "closing">>, <<"closing", "disconnecting">>,
      <<"disconnecting", "logging">>, <<"logging", "exited">> }
C23_ShutdownReachesExit ==
    /\ [][(proc'.phase # proc.phase /\ ~proc.crash) =>
             <<proc.phase, proc'.phase>> \in ShutdownOrder]_vars
    /\ (proc.phase = "closing") ~> (proc.phase = "exited")

\* ------------------------------------------------- claims on CTCP events
\* C26: a step that gives the Transfer a CTCP-PRIVMSG whose sender is not the
\* bot, whose target is not our nick, or whose payload does not start with
\* "DCC ", changes nothing of the Transfer: no state, event, IRC message, file
\* or socket.
NotForUs(m) ==
    m.sender # BotNick \/ m.target # OurNick \/ m.kind = "text"
Delivered ==
    ircIn.queue # <<>> /\ ircIn'.queue = Tail(ircIn.queue)
C26_FilteredLeavesTransferAlone ==
    [][(Delivered /\ NotForUs(Head(ircIn.queue))) =>
         requestVars' = requestVars]_vars
C26_Witness ==
    /\ ircIn.handled = 2
    /\ ircIn.queue = <<>>
    /\ started
    /\ ~finished
    /\ Len(packs) = 1
    /\ dl = <<>>
    /\ Terminals = 0

\* ------------------------------------------- claims on concurrent Transfers
\* C27: no two Transfers have the same .part open, and no two Transfers have
\* a data channel for the same offer (filename and port).
StreamOf(t) == pair.reqs[t].stream = "open"
ChannelOf(t) == pair.reqs[t].conn \in {"connecting", "connected"}
C27_OneOwnerPerOffer ==
    \A t1, t2 \in Transfers :
        (t1 # t2 /\ pair.reqs[t1].pack # <<>> /\ pair.reqs[t2].pack # <<>>) =>
            /\ ~(/\ StreamOf(t1)
                 /\ StreamOf(t2)
                 /\ pair.reqs[t1].pack[1] = pair.reqs[t2].pack[1])
            /\ ~(/\ ChannelOf(t1)
                 /\ ChannelOf(t2)
                 /\ pair.reqs[t1].pack = pair.reqs[t2].pack)

\* C29: once the Transfer has ended (it is finished), every registry entry
\* is eventually removed.
C29_EntryEventuallyRemoved ==
    (finished /\ activeDownloads # <<>>) ~> (activeDownloads = <<>>)

\* ------------------------------------------- claims on the data channel
\* C34: over its life a Transfer opens at most one data channel (a write
\* stream on the .part with a TCP connection to the bot).
ChannelsOpened == {d \in Downloads : Opened(d)}
C34_ChannelOpenedOnce ==
    Cardinality(ChannelsOpened) <= 1

\* ------------------------------------------------ claims on the percent
\* C33: the progress field of every progress envelope sent to a client is
\* an integer in 0..100, equal to min(100, floor(received * 100 / file_size)),
\* and no progress envelope is computed for a file_size of 0.
ProgressEnvelopes ==
    {e \in UNION {{out[c][i] : i \in 1..Len(out[c])} : c \in Socks} :
        e.status = "progress"}
MinPercent(received, filesize) ==
    IF (received * 100) \div filesize < 100
    THEN (received * 100) \div filesize
    ELSE 100
C33_PercentInRange ==
    \A e \in ProgressEnvelopes :
        /\ e.total # 0
        /\ e.progress \in 0..100
        /\ e.progress = MinPercent(e.received, e.total)

\* ------------------------------------------- claims on a complete .part
\* C32: when the .part already has the announced file_size, the RESUME
\* carries offset = file_size; on the channel opened by the matching ACCEPT,
\* a peer that closes without sending a byte makes the Transfer issue the
\* rename and raise no 'dlerror', and the rename that succeeds is followed
\* by 'complete'.
\* the fs.stat of the offered file finds a .part of the announced size
WholePart ==
    /\ pack_info # 0
    /\ \E i \in 1..Len(stats) : StatDone(i) /\ stats[i] = packs[pack_info].filename
    /\ part[packs[pack_info].filename] = packs[pack_info].filesize
\* a channel opened by the ACCEPT of a RESUME at offset file_size, no byte
\* delivered
WholeResumed(d) ==
    /\ PackOf(d).command = "ACCEPT"
    /\ PackOf(d).filesize > 0
    /\ dl[d].called = PackOf(d).filesize
    /\ dl[d].nChunks = 0
    /\ \E i \in 1..Len(ircOut) :
          /\ ircOut[i].cmd = "DCC RESUME"
          /\ ircOut[i].filename = PackOf(d).filename
          /\ ircOut[i].port = PackOf(d).port
          /\ ircOut[i].pos = PackOf(d).filesize
\* conn 'end' on channel d: the rename is issued, or the close is reported
PeerClosed(d) ==
    /\ dl[d].st = "connected"
    /\ \/ dl'[d].st = "renaming"
       \/ /\ dl'[d].st = "destroyed"
          /\ emitted'.dlerror = emitted.dlerror + 1
          /\ lastEmit'.msg \in {"Server unexpectedly closed connection",
                                "Server closed connection, download canceled"}
C32_WholePartCompletes ==
    [][/\ (ResumeSent /\ WholePart) =>
            /\ ircOut'[Len(ircOut')].pos = packs[pack_info].filesize
            /\ ircOut'[Len(ircOut')].filename = packs[pack_info].filename
            /\ packs'[pack_info].resumepos = packs[pack_info].filesize
       /\ \A d \in Downloads :
            /\ (WholeResumed(d) /\ PeerClosed(d)) =>
                 /\ dl'[d].st = "renaming"
                 /\ emitted'.dlerror = emitted.dlerror
            /\ (WholeResumed(d) /\ dl[d].st = "renaming" /\ dl'[d].st = "renamed") =>
                 /\ emitted'.complete = emitted.complete + 1
                 /\ emitted'.dlerror = emitted.dlerror
                 /\ PathOf(d) \in final']_vars


\* ------------------------------------------- claims on termination
\* C31: a Transfer that has opened a data channel becomes finished, and
\* unless it was cancelled it has emitted a terminal event by then: it does
\* not stay in DOWNLOADING forever.
C31_OpenChannelTerminates ==
    (\E d \in Downloads : Opened(d))
        ~> (finished /\ (cancelled \/ Terminals > 0))
C31_Witness ==
    /\ finished
    /\ ~cancelled
    /\ Terminals = 1
    /\ lastEmit.msg = "Connection timed out"
    /\ \E d \in Downloads : dl[d].st = "destroyed" /\ dl[d].nChunks > 0
====
